---- MODULE Spec2Model ----
(***************************************************************************)
(* Bottomhole-pressure sweep of homeworks/homework_1/Klochko/program.py.   *)
(*                                                                         *)
(* Number representation.  The program computes in binary floating point;  *)
(* the model computes in decimal fixed point on 32-bit integers:           *)
(*   - "x4"  : a real x is the integer x * 10^4 (four decimals);           *)
(*   - "milli": a real x is the integer x * 10^3.  The two values the ODE   *)
(*     solver hands to its right-hand side (independent variable and       *)
(*     state) use this one representation, whatever they mean physically;  *)
(*   - quantities whose range exceeds 32 bits (Reynolds number, the        *)
(*     Churchill terms, the friction term) are carried as their natural    *)
(*     logarithm in x4 form; sums of such quantities use LogAddExp.        *)
(* Each parameter's unit is stated at the operator that takes it.          *)
(***************************************************************************)
EXTENDS Integers, Sequences, FiniteSets

----------------------------------------------------------------------------
(* Fixed-point arithmetic                                                  *)

\* The one element of a singleton set.  Only({e(v) : v \in {a}}) evaluates a
\* once and names its value v, as an assignment to a local does.
Only(S) == CHOOSE x \in S : TRUE

Abs(x) == Only({IF v < 0 THEN -v ELSE v : v \in {x}})

Max(a, b) == Only({IF v >= w THEN v ELSE w : v \in {a}, w \in {b}})

Min(a, b) == Only({IF v <= w THEN v ELSE w : v \in {a}, w \in {b}})

\* a * b / c without leaving 32 bits (c > 0, |b| * c < 2^31).
MulDiv(a, b, c) ==
    Only({(u \div w) * v + ((u % w) * v) \div w : u \in {a}, v \in {b}, w \in {c}})

RECURSIVE Pow2(_)
Pow2(k) == IF k <= 0 THEN 1 ELSE 2 * Pow2(k - 1)

\* floor(log2(n)) for n >= 1.
RECURSIVE Log2Floor(_)
Log2Floor(n) == IF n < 2 THEN 0 ELSE 1 + Log2Floor(n \div 2)

\* floor(sqrt(n)) for n >= 0, by bisection on [lo, hi).
RECURSIVE SqrtBisect(_, _, _)
SqrtBisect(n, lo, hi) ==
    IF hi - lo <= 1 THEN lo
    ELSE Only({IF mid * mid <= n THEN SqrtBisect(n, mid, hi)
                                 ELSE SqrtBisect(n, lo, mid) :
               mid \in {(lo + hi) \div 2}})

ISqrt(n) == Only({SqrtBisect(v, 0, 46341) : v \in {n}})

\* The value standing for log(0) = -inf.
LnZero == -(2 * 1000000000)

\* 2 * atanh(z) for z in x4 form, |z| <= 1/3: ln((1 + z) / (1 - z)).
Atanh2(z) ==
    Only({Only({2 * (v + ((v2 * v) \div 10000) \div 3
                       + ((((v2 * v2) \div 10000) * v) \div 10000) \div 5
                       + ((((((v2 * v2) \div 10000) * v2) \div 10000) * v) \div 10000) \div 7) :
                v2 \in {(v * v) \div 10000}}) :
          v \in {z}})

\* The mantissa m of n = m * 2^k, 1 <= m < 2, in x4 form.
Mantissa(n, k) ==
    IF k >= 14 THEN ((n \div Pow2(k - 14)) * 10000) \div 16384
               ELSE (n * 10000) \div Pow2(k)

\* ln(n) * 10^4 for an integer n >= 1: n = m * 2^k with 1 <= m < 2,
\* ln m = 2 * atanh((m - 1) / (m + 1)).
LnPos(n, k) ==
    Only({(k * 69315) \div 10 + Atanh2(((m - 10000) * 10000) \div (m + 10000)) :
          m \in {Mantissa(n, k)}})

Ln(n) ==
    Only({IF v <= 0 THEN LnZero ELSE Only({LnPos(v, k) : k \in {Log2Floor(v)}}) :
          v \in {n}})

\* ln of a real given in x4 form.
Ln4(x4) == Only({IF v = LnZero THEN LnZero ELSE v - Ln(10000) : v \in {Ln(x4)}})

\* e^(r / 10^4) * 10^4 for 0 <= r < ln 2, by its Taylor series.
ExpFrac(r) ==
    Only({Only({Only({10000 + v + v2 \div 2 + v3 \div 6 + ((v3 * v) \div 10000) \div 24
                        + ((v3 * v2) \div 10000) \div 120
                        + ((v3 * v3) \div 10000) \div 720 :
                      v3 \in {(v2 * v) \div 10000}}) :
                v2 \in {(v * v) \div 10000}}) :
          v \in {r}})

\* e^(x / 10^4) * s for s in {1, 10000}, given x = k * ln 2 + r.
ExpParts(k, r, s) ==
    Only({IF k >= 0 THEN (IF s = 1 THEN (e * Pow2(k)) \div 10000 ELSE e * Pow2(k))
          ELSE IF k < -30 THEN 0
          ELSE (IF s = 1 THEN (e \div Pow2(-k)) \div 10000 ELSE e \div Pow2(-k)) :
          e \in {ExpFrac(IF r < 0 THEN 0 ELSE r)}})

ExpScaled(x4, s) ==
    Only({IF v < -300000 THEN 0
          ELSE Only({ExpParts(k, v - (k * 69315) \div 10, s) : k \in {(v * 10) \div 69315}}) :
          v \in {x4}})

Exp4(x4) == ExpScaled(x4, 10000)

\* ln(e^a + e^b) for logarithms a, b in x4 form.
LogAddExp(a, b) ==
    Only({IF lo = LnZero THEN hi ELSE hi + Ln4(10000 + Exp4(lo - hi)) :
          hi \in {Max(a, b)}, lo \in {Min(a, b)}})

----------------------------------------------------------------------------
(* Fluid properties and flow correlations                                  *)

\* Line 19: the radicand 3838.77 * rho - 2.009 * rho^2, times 100, where
\* rho = gamma_water * 1000 and gamma_water is given in thousandths.
calc_ws_radicand(gamma_water) ==
    Only({383877 * g - (200 * g * g + (9 * g * g) \div 10) : g \in {gamma_water}})

\* Lines 17-20: the value of ws before the test, in x4 form.
calc_ws_formula(gamma_water) ==
    Only({(((136545 * g) \div 10000 - ISqrt(calc_ws_radicand(g))) * 1000) \div g :
          g \in {gamma_water}})

\* (variant: the test of lines 22-25 is missing)
calc_ws_noclamp(gamma_water) ==
    Only({IF g = 0 THEN [kind |-> "ZeroDivisionError", val |-> 0]
          ELSE IF calc_ws_radicand(g) < 0 THEN [kind |-> "TypeError", val |-> 0]
          ELSE [kind |-> "ok", val |-> calc_ws_formula(g)] :
          g \in {gamma_water}})

\* calc_ws(gamma_water), gamma_water in thousandths.  The result is
\* [kind, val]: kind "ok" with val the returned ws in x4 form, or the name of
\* the exception that leaves the function.  1 / (gamma_water * 1000) is
\* evaluated first and raises ZeroDivisionError for 0; a negative float
\* raised to 0.5 is a complex number, and the test ws > 0 on a complex
\* number raises TypeError.
calc_ws(gamma_water) ==
    Only({IF g = 0 THEN [kind |-> "ZeroDivisionError", val |-> 0]
          ELSE IF calc_ws_radicand(g) < 0 THEN [kind |-> "TypeError", val |-> 0]
          ELSE Only({IF ws > 0 THEN [kind |-> "ok", val |-> ws]
                               ELSE [kind |-> "ok", val |-> 0] :
                     ws \in {calc_ws_formula(g)}}) :
          g \in {gamma_water}})

\* Line 39: 1000 * (1.0009 - 0.7114 * ws + 0.2605 * ws^2)^(-1), kg/m3 times 10.
calc_rho_w_salt(ws) ==
    Only({100000000 \div (10009 - MulDiv(7114, w, 10000)
                                + MulDiv(2605, (w * w) \div 10000, 10000)) :
          w \in {ws}})

\* Line 41: (t - 273) ** 0.637 in x4 form, tc = t - 273 in millikelvin.
calc_rho_w_pow(tc) ==
    IF tc = 0 THEN 0 ELSE Exp4(MulDiv(Ln(tc) - Ln(1000), 637, 1000))

\* Line 41: (t - 273) * 1e-4 * (0.269 * (t - 273)^0.637 - 0.8) in x4 form,
\* tc = t - 273 in millikelvin.
calc_rho_w_temp(tc) ==
    Only({((c \div 10) * (MulDiv(calc_rho_w_pow(c), 2690, 10000) - 8000)) \div 1000000 :
          c \in {tc}})

\* calc_rho_w(ws, t): ws in x4 form, t in millikelvin; kg/m3 times 10.
calc_rho_w(ws, t) ==
    (calc_rho_w_salt(ws) * 10000) \div (10000 + calc_rho_w_temp(t - 273000))

\* Line 73: the pressure polynomial of calc_mu_w, p in milli form; x4 form.
calc_mu_w_pfactor(p) ==
    Only({9994 + (58 * pp) \div 1000
               + MulDiv((pp \div 10) * (pp \div 10), 6534, 10000) \div 10000 :
          pp \in {(p * 101) \div 1000 + (p * 325) \div 1000000}})

\* Lines 57-62: a, in hundredths; the powers of ws in x4 form.
calc_mu_w_a(w, w2, w3) ==
    10957 - MulDiv(84056, w, 10000) + MulDiv(313314, w2, 10000)
          + MulDiv(872213, w3, 10000)

\* Lines 63-69: b, in x4 form.
calc_mu_w_b(w, w2, w3, w4) ==
    11217 - MulDiv(26395, w, 10000) + MulDiv(67946, w2, 10000)
          + MulDiv(547119, w3, 10000) - MulDiv(1555860, w4, 10000)

\* Lines 71-74, given a, b and the powers of ws.
calc_mu_w_value(a, b, t, p) ==
    Exp4(Ln(a) - Ln(100) - MulDiv(Ln((18 * t) \div 10 - 460000) - Ln(1000), b, 10000)
           + Ln4(calc_mu_w_pfactor(p)))

\* calc_mu_w(ws, t, p): ws in x4 form, t in millikelvin, p in milli form;
\* cP in x4 form.
calc_mu_w(ws, t, p) ==
    Only({Only({Only({calc_mu_w_value(a, b, t, p) :
                      a \in {calc_mu_w_a(w, w2, w3)},
                      b \in {calc_mu_w_b(w, w2, w3, (w3 * w) \div 10000)}}) :
                w3 \in {(w2 * w) \div 10000}}) :
          w \in {ws}, w2 \in {(ws * ws) \div 10000}})

\* ln of a rate given in units of 10^-8 m3/s.
LnRate(q_liq) == Ln(q_liq) - Ln(100000000)

\* ln of a length given in millimetres, in metres.
LnMm(d) == Ln(d) - Ln(1000)

\* calc_n_re(rho_w, q_liq, mu_w, d_tub): rho_w in kg/m3 times 10, q_liq in
\* 10^-8 m3/s, mu_w in x4 form, d_tub in mm; ln(Re) in x4 form.
calc_n_re(rho_w, q_liq, mu_w, d_tub) ==
    Only({Only({(Ln(rho_w) - Ln(10)) + lnv + lnd - Ln4(mu_w) + Ln(1000) :
                lnv \in {LnRate(q_liq) - (Ln4(7854) + 2 * lnd)}}) :
          lnd \in {LnMm(d_tub)}})

\* Line 110: ln of (7 / n_re)^0.9 + 0.27 * (roughness / d_tub).
calc_f_churchill_inner(n_re, roughness, d_tub) ==
    LogAddExp(MulDiv(Ln(7) - n_re, 9, 10),
              IF roughness = 0 THEN LnZero
              ELSE Ln(27) - Ln(100) + (Ln(roughness) - Ln(1000000)) - LnMm(d_tub))

\* Line 110: ln(a), a = (-2.457 * inner)^16, inner the logarithm above.
calc_f_churchill_a(inner) ==
    Only({IF r = 0 THEN LnZero ELSE 16 * Ln4(r) :
          r \in {Abs(MulDiv(inner, 24570, 10000))}})

\* Line 113: ln of 1 / (a + b)^1.5, given ln(a + b).
calc_f_churchill_trn(ab) ==
    Only({IF v = LnZero THEN -LnZero ELSE -MulDiv(v, 15, 10) : v \in {ab}})

\* calc_f_churchill(n_re, roughness, d_tub): n_re as ln(Re) in x4 form,
\* roughness in micrometres, d_tub in mm; ln(f) in x4 form.
calc_f_churchill(n_re, roughness, d_tub) ==
    Only({Only({Ln(8) + LogAddExp(12 * (Ln(8) - re),
                                  calc_f_churchill_trn(LogAddExp(a, b))) \div 12 :
                a \in {calc_f_churchill_a(calc_f_churchill_inner(re, roughness, d_tub))},
                b \in {16 * (Ln(37530) - re)}}) :
          re \in {n_re}})

\* math.cos(math.radians(angle)) in x4 form, angle in whole degrees.
\* cos(radians(90)) is 6.1e-17 in floating point: 0 at four decimals.
CosDeg(angle) ==
    CASE angle = 0  -> 10000
      [] angle = 30 -> 8660
      [] angle = 45 -> 7071
      [] angle = 60 -> 5000
      [] angle = 90 -> 0

\* Line 141: the local temperature, millikelvin; l in milli form.
dp_t(l, t_wh, temp_grad) == (t_wh * 1000 + (temp_grad * l) \div 100) + 273000

\* rho_w * g, g = 9.81 (line 144), in Pa/m; rho_w in kg/m3 times 10.
RhoG(rho_w) == (rho_w * 981) \div 1000

\* dp from line 150 on, given the locals computed before it.
dp_gradient(p, t_loc, ws, rho_w, mu_w, n_re, f, angle, d_tub, q_liq) ==
    Only({[raised |-> "none", t |-> t_loc, ws |-> ws, rho_w |-> rho_w,
           mu_p |-> p, mu_w |-> mu_w, n_re |-> n_re, f |-> f,
           grav |-> grav, fric |-> fric, dp |-> grav - fric] :
          grav \in {(RhoG(rho_w) * CosDeg(angle)) \div 10000},
          fric \in {ExpScaled(Ln4(8150) + f + (Ln(rho_w) - Ln(10))
                              - 5 * LnMm(d_tub) + 2 * LnRate(q_liq), 1)}})

\* dp from line 148 on.
dp_friction(p, t_loc, ws, rho_w, mu_w, n_re, roughness, angle, d_tub, q_liq) ==
    Only({dp_gradient(p, t_loc, ws, rho_w, mu_w, n_re, f, angle, d_tub, q_liq) :
          f \in {calc_f_churchill(n_re, roughness, d_tub)}})

\* dp from line 147 on.
dp_reynolds(p, t_loc, ws, rho_w, mu_w, roughness, angle, d_tub, q_liq) ==
    Only({dp_friction(p, t_loc, ws, rho_w, mu_w, n_re, roughness, angle, d_tub, q_liq) :
          n_re \in {calc_n_re(rho_w, q_liq, mu_w, d_tub)}})

\* dp from line 143 on: rho_w from the local temperature, mu_w from the local
\* temperature and the first parameter p.
dp_fluid(p, t_loc, ws, roughness, angle, d_tub, q_liq) ==
    Only({dp_reynolds(p, t_loc, ws, rho_w, mu_w, roughness, angle, d_tub, q_liq) :
          rho_w \in {calc_rho_w(ws, t_loc)},
          mu_w \in {calc_mu_w(ws, t_loc, p)}})

\* The locals of dp at its return (lines 140-152).  p and l are the first two
\* positional parameters, in milli form; the third parameter t is overwritten
\* at line 141 before any use.  t_wh in degrees C, temp_grad in degrees C per
\* 100 m, gamma_water in thousandths, roughness in micrometres, angle in
\* degrees, d_tub in mm, q_liq in 10^-8 m3/s.  grav, fric and dp are in
\* 10^-6 of the unit of the returned gradient (xi = 10^-6, line 140).  When
\* calc_ws raises, raised names the exception and the other locals are unset.
dp_locals(p, l, t, t_wh, temp_grad, md_vdp, gamma_water, roughness, angle, d_tub, q_liq) ==
    Only({IF ws.kind # "ok"
          THEN [raised |-> ws.kind, t |-> t_loc, ws |-> 0, rho_w |-> 0, mu_p |-> 0,
                mu_w |-> 0, n_re |-> 0, f |-> 0, grav |-> 0, fric |-> 0, dp |-> 0]
          ELSE dp_fluid(p, t_loc, ws.val, roughness, angle, d_tub, q_liq) :
          t_loc \in {dp_t(l, t_wh, temp_grad)},
          ws \in {calc_ws(gamma_water)}})

----------------------------------------------------------------------------
(* main: the rate sweep                                                    *)

VARIABLES
    kwargs,     \* main's keyword arguments
    pc,         \* position in main
    q_liq,      \* the rate grid (lines 156-158)
    q_liq_sec,  \* the rates per second (line 161)
    p_wf,       \* the pressures appended so far (lines 160, 173)
    idx,        \* position of the for loop in q_liq_sec (line 162)
    sol,        \* the running solve_ivp call: step, position, state, rate
    ev,         \* the latest evaluation of dp by the solver
    runs,       \* history: rate and final state of every completed solve_ivp call
    result,     \* main's return value (line 179)
    err,        \* the exception that left main, or "none"
    ws_ret      \* outcome of a direct call of calc_ws

vars == <<kwargs, pc, q_liq, q_liq_sec, p_wf, idx, sol, ev, runs, result, err, ws_ret>>

\* np.linspace(1, 400, 41), line 156.
GridStart == 1

GridStop == 400

GridPoints == 41

\* Number of steps the solver takes from 0 to md_vdp.
NSteps == 3

\* Largest relative density (thousandths) calc_ws is applied to on its own.
GammaMax == 2500

\* (variant: the start offset is dropped)
Linspace_nostart(start, stop, num, k) ==
    ((k * (stop - start)) * 10000) \div (num - 1)

\* np.linspace(start, stop, num)[k] = start + k * (stop - start) / (num - 1),
\* in x4 form (the grid values are multiples of 0.025).
Linspace(start, stop, num, k) ==
    start * 10000 + ((k * (stop - start)) * 10000) \div (num - 1)

\* (variant: round to nearest instead of truncating)
IntOf_round(x4) == (x4 + 5000) \div 10000

\* int(x) of a float in x4 form: truncation toward zero.
IntOf(x4) == IF x4 >= 0 THEN x4 \div 10000 ELSE -((-x4) \div 10000)

\* (variant: the endpoint is left out, as with endpoint=False)
RateGrid_noend ==
    [k \in 1..(GridPoints - 1) |-> IntOf(Linspace(GridStart, GridStop, GridPoints, k - 1))]

\* Lines 156-158: the rate grid.
RateGrid ==
    [k \in 1..GridPoints |-> IntOf(Linspace(GridStart, GridStop, GridPoints, k - 1))]

\* Line 161: q / (60 * 60 * 24), in units of 10^-8 m3/s.
ToPerSecond(q) == (q * 1000000) \div 864

\* Line 166: y0 = p_wh * 0.101325, milli form.
\* (variant: a later run starts from the state the previous run ended in)
Y0_carried(kw) ==
    IF runs = <<>> THEN (kw.p_wh * 101325) \div 1000 ELSE runs[Len(runs)].y

Y0(kw) == (kw.p_wh * 101325) \div 1000

\* Line 173: sol.y[0][0] * 9.86923, milli form.
ToReport(y) == Only({v * 9 + (v * 869) \div 1000 + (v * 23) \div 100000 : v \in {y}})

\* Lines 167-170: the extra arguments of fun.
SolveArgs(kw, rate) ==
    <<kw.t_wh, kw.t_wh, kw.temp_grad, kw.md_vdp, kw.gamma_water,
      kw.roughness, kw.angle, kw.d_tub, rate>>

\* solve_ivp calls fun(t, y, *args) with fun = dp (line 164): the
\* independent variable, the state, then the nine extra arguments, bound to
\* dp's parameters by position.
Fun(t, y, args) ==
    Only({dp_locals(a0, a1, a[1], a[2], a[3], a[4], a[5], a[6], a[7], a[8], a[9]) :
          a0 \in {t}, a1 \in {y}, a \in {args}})

\* The solver's k-th sample point on t_span = [0, md_vdp], in metres.
SamplePoint(md_vdp, k) == (md_vdp * k) \div NSteps

\* One explicit step of the solver from its k-th sample point: the new state.
\* The library's adaptive Runge-Kutta scheme is represented by NSteps explicit
\* steps, each evaluating fun once at the current (t, y).
StepY(md_vdp, k, y, grad) ==
    y + (grad * (SamplePoint(md_vdp, k + 1) - SamplePoint(md_vdp, k))) \div 1000

\* solve_ivp(dp, [0, md_vdp], [y0], args, t_eval = [md_vdp]).y[0][0] for a
\* run that raises nothing, from step k and state y on.
RECURSIVE Integrate(_, _, _, _)
Integrate(md_vdp, args, k, y) ==
    IF k >= NSteps THEN y
    ELSE Integrate(md_vdp, args, k + 1,
                   StepY(md_vdp, k, y, Fun(SamplePoint(md_vdp, k) * 1000, y, args).dp))

SolveIvp(kw, rate) ==
    Integrate(kw.md_vdp, SolveArgs(kw, rate), 0, Y0(kw))

\* The configuration of the end-to-end scenario (8.json's fields).
Scenario ==
    [t_wh |-> 20, temp_grad |-> 2, md_vdp |-> 1500, gamma_water |-> 1000,
     roughness |-> 100, angle |-> 90, d_tub |-> 60, p_wh |-> 5]

SweepGammas == {-500, 0, 500, 991, 992, 1000, 1100, 1200, 1911, 2000}

Configs ==
    {[Scenario EXCEPT !.gamma_water = g, !.angle = a, !.t_wh = tw] :
        g \in SweepGammas, a \in {0, 60, 90}, tw \in {20, 40}}

NoEval ==
    [evaluated |-> FALSE, indep |-> 0, state |-> 0, q_liq |-> 0,
     loc |-> [raised |-> "none", t |-> 0, ws |-> 0, rho_w |-> 0, mu_p |-> 0, mu_w |-> 0,
              n_re |-> 0, f |-> 0, grav |-> 0, fric |-> 0, dp |-> 0]]

NoSol == [k |-> 0, t |-> 0, y |-> 0, q |-> 0]

NoResult == [q_liq |-> <<>>, p_wf |-> <<>>]

NoWs == [kind |-> "none", val |-> 0]

Idle ==
    /\ q_liq = <<>>
    /\ q_liq_sec = <<>>
    /\ p_wf = <<>>
    /\ idx = 1
    /\ sol = NoSol
    /\ ev = NoEval
    /\ runs = <<>>
    /\ result = NoResult
    /\ err = "none"
    /\ ws_ret = NoWs

Init ==
    /\ kwargs \in Configs
    /\ pc = "start"
    /\ Idle

\* Lines 156-161.
BuildGrid ==
    /\ pc = "start"
    /\ q_liq' = RateGrid
    /\ q_liq_sec' = [k \in 1..Len(RateGrid) |-> ToPerSecond(RateGrid[k])]
    /\ p_wf' = <<>>
    /\ idx' = 1
    /\ pc' = "for"
    /\ UNCHANGED <<kwargs, sol, ev, runs, result, err, ws_ret>>

\* Lines 162-172: the loop takes its next rate and calls solve_ivp.
CallSolveIvp ==
    /\ pc = "for"
    /\ idx <= Len(q_liq_sec)
    /\ sol' = [k |-> 0, t |-> 0, y |-> Y0(kwargs), q |-> q_liq_sec[idx]]
    /\ pc' = "solve"
    /\ UNCHANGED <<kwargs, q_liq, q_liq_sec, p_wf, idx, ev, runs, result, err, ws_ret>>

Evaluation ==
    [evaluated |-> TRUE, indep |-> sol.t, state |-> sol.y, q_liq |-> sol.q,
     loc |-> Fun(sol.t, sol.y, SolveArgs(kwargs, sol.q))]

\* Inside solve_ivp: one step, with its evaluation of dp.
SolverStep ==
    /\ pc = "solve"
    /\ sol.k < NSteps
    /\ Evaluation.loc.raised = "none"
    /\ ev' = Evaluation
    /\ sol' = [sol EXCEPT !.k = sol.k + 1,
                          !.t = SamplePoint(kwargs.md_vdp, sol.k + 1) * 1000,
                          !.y = StepY(kwargs.md_vdp, sol.k, sol.y, Evaluation.loc.dp)]
    /\ UNCHANGED <<kwargs, pc, q_liq, q_liq_sec, p_wf, idx, runs, result, err, ws_ret>>

\* Inside solve_ivp: dp raises; nothing catches it and main is left.
SolverRaise ==
    /\ pc = "solve"
    /\ sol.k < NSteps
    /\ Evaluation.loc.raised # "none"
    /\ ev' = Evaluation
    /\ err' = Evaluation.loc.raised
    /\ pc' = "raised"
    /\ UNCHANGED <<kwargs, q_liq, q_liq_sec, p_wf, idx, sol, runs, result, ws_ret>>

\* (variant: the pressure is inserted at the front of the list)
AppendPwf_front ==
    /\ pc = "solve"
    /\ sol.k = NSteps
    /\ p_wf' = <<ToReport(sol.y)>> \o p_wf
    /\ runs' = Append(runs, [q |-> sol.q, y |-> sol.y])
    /\ idx' = idx + 1
    /\ pc' = "for"
    /\ UNCHANGED <<kwargs, q_liq, q_liq_sec, sol, ev, result, err, ws_ret>>

\* Line 173: solve_ivp has returned; the pressure is appended.
AppendPwf ==
    /\ pc = "solve"
    /\ sol.k = NSteps
    /\ p_wf' = Append(p_wf, ToReport(sol.y))
    /\ runs' = Append(runs, [q |-> sol.q, y |-> sol.y])
    /\ idx' = idx + 1
    /\ pc' = "for"
    /\ UNCHANGED <<kwargs, q_liq, q_liq_sec, sol, ev, result, err, ws_ret>>

\* Lines 175-179: the loop is exhausted; main returns the table.
Return ==
    /\ pc = "for"
    /\ idx > Len(q_liq_sec)
    /\ result' = [q_liq |-> q_liq, p_wf |-> p_wf]
    /\ pc' = "done"
    /\ UNCHANGED <<kwargs, q_liq, q_liq_sec, p_wf, idx, sol, ev, runs, err, ws_ret>>

Next ==
    \/ BuildGrid
    \/ CallSolveIvp
    \/ SolverStep
    \/ SolverRaise
    \/ AppendPwf
    \/ Return

Spec == Init /\ [][Next]_vars

----------------------------------------------------------------------------
(* calc_ws applied on its own to every relative density of a range         *)

InitWs ==
    /\ kwargs \in {[Scenario EXCEPT !.gamma_water = g] : g \in {-500} \cup (0..GammaMax)}
    /\ pc = "ws_call"
    /\ Idle

CallCalcWs ==
    /\ pc = "ws_call"
    /\ ws_ret' = calc_ws(kwargs.gamma_water)
    /\ pc' = "ws_ret"
    /\ UNCHANGED <<kwargs, q_liq, q_liq_sec, p_wf, idx, sol, ev, runs, result, err>>

NextWs == CallCalcWs

SpecWs == InitWs /\ [][NextWs]_vars

----------------------------------------------------------------------------
(* Properties                                                              *)

\* C1: when main returns, the table's 'q_liq' has exactly 41 entries, the
\* first 1 and the last 400, and 'p_wf' has exactly 41 entries.
C1_TableShape ==
    pc = "done" =>
        /\ Len(result.q_liq) = 41
        /\ result.q_liq[1] = 1
        /\ result.q_liq[41] = 400
        /\ Len(result.p_wf) = 41

C1_Witness == pc = "done" /\ kwargs = Scenario /\ Len(result.p_wf) = 41

\* C2 as stated: the grid is strictly ascending and its k-th entry is
\* 1 + 399 * k / 40 rounded to the nearest integer (either neighbour at a tie).
C2_RoundedGrid ==
    q_liq # <<>> =>
        /\ Len(q_liq) = 41
        /\ \A k \in 1..40 : q_liq[k] < q_liq[k + 1]
        /\ \A k \in 0..40 : Abs(40 * q_liq[k + 1] - (40 + 399 * k)) <= 20

\* C2 as amended: the grid is strictly ascending and its k-th entry is
\* 1 + 399 * k / 40 truncated toward zero.
C2_TruncatedGrid ==
    q_liq # <<>> =>
        /\ Len(q_liq) = 41
        /\ \A k \in 1..40 : q_liq[k] < q_liq[k + 1]
        /\ \A k \in 0..40 : q_liq[k + 1] = (40 + 399 * k) \div 40

C2_Witness == pc = "for" /\ Len(q_liq) = 41 /\ q_liq[2] = 10 /\ q_liq[40] = 390

\* C3: solve_ivp is called once per grid rate, in grid order, and the i-th
\* pressure is the converted result of the run for the i-th rate; nothing is
\* dropped, duplicated or reordered.
C3_OrderPreserved ==
    /\ Len(runs) = Len(p_wf)
    /\ Len(p_wf) <= Len(q_liq)
    /\ \A i \in 1..Len(p_wf) :
          /\ runs[i].q = ToPerSecond(q_liq[i])
          /\ p_wf[i] = ToReport(runs[i].y)
    /\ pc = "solve" => (Len(runs) = idx - 1 /\ sol.q = ToPerSecond(q_liq[idx]))
    /\ pc = "done" =>
          /\ Len(runs) = Len(q_liq)
          /\ result.q_liq = q_liq
          /\ result.p_wf = p_wf

C3_Witness == pc = "done" /\ Len(p_wf) = 41 /\ p_wf[1] # p_wf[41]

\* C4: calc_ws never returns a negative value: a non-positive formula value
\* is returned as 0, a positive one unchanged.
C4_SalinityClamped ==
    (pc = "ws_ret" /\ ws_ret.kind = "ok") =>
        /\ ws_ret.val >= 0
        /\ calc_ws_formula(kwargs.gamma_water) <= 0 => ws_ret.val = 0
        /\ calc_ws_formula(kwargs.gamma_water) > 0 =>
              ws_ret.val = calc_ws_formula(kwargs.gamma_water)

C4_Witness ==
    /\ pc = "ws_ret"
    /\ ws_ret = [kind |-> "ok", val |-> 0]
    /\ kwargs.gamma_water = 991
    /\ calc_ws_formula(kwargs.gamma_water) < 0

\* C5: for every relative density whose radicand is negative (gamma above
\* about 1.91), calc_ws completes normally and returns exactly 0.
C5_NoErrorOutOfRange ==
    (pc = "ws_ret" /\ kwargs.gamma_water > 0 /\ calc_ws_radicand(kwargs.gamma_water) < 0) =>
        ws_ret = [kind |-> "ok", val |-> 0]

\* C6: a run's result depends on the configuration and the rate only: every
\* reported pressure equals the one a fresh integration of that rate yields,
\* whatever was integrated before it.
C6_HistoryFree ==
    pc = "done" =>
        \A i \in 1..Len(q_liq) :
            result.p_wf[i] = ToReport(SolveIvp(kwargs, ToPerSecond(q_liq[i])))

C6_Witness ==
    /\ pc = "done"
    /\ Len(runs) = 41
    /\ runs[41].y # Y0(kwargs)
    /\ runs[40].y # runs[41].y

\* C7: every rate main hands to the integrator, and every q_liq dp is
\* evaluated with, is strictly positive.
C7_RatesPositive ==
    /\ \A i \in 1..Len(q_liq) : q_liq[i] > 0
    /\ \A i \in 1..Len(q_liq_sec) : q_liq_sec[i] > 0
    /\ pc = "solve" => sol.q > 0
    /\ ev.evaluated => ev.q_liq > 0
    /\ \A i \in 1..Len(runs) : runs[i].q > 0

C7_Witness == ev.evaluated /\ ev.q_liq = ToPerSecond(1) /\ pc = "solve" /\ sol.k = 1

\* C8: in every evaluation of dp by the integrator the local temperature is
\* t_wh + temp_grad * depth / 100 + 273, depth being the integrator's
\* position along the wellbore.
C8_TemperatureFromDepth ==
    ev.evaluated =>
        ev.loc.t = kwargs.t_wh * 1000 + (kwargs.temp_grad * ev.indep) \div 100 + 273000

\* C9: in every evaluation of dp by the integrator the pressure handed to
\* calc_mu_w is the integrator's current state value.
C9_ViscosityFromPressure ==
    (ev.evaluated /\ ev.loc.raised = "none") => ev.loc.mu_p = ev.state

\* C10: for a vertical well (angle = 90) the gravitational term of the
\* gradient is rho_w * g, and the gradient is positive whenever the friction
\* term is smaller than rho_w * g.
C10_VerticalHydrostatic ==
    (kwargs.angle = 90 /\ ev.evaluated /\ ev.loc.raised = "none") =>
        /\ ev.loc.grav = RhoG(ev.loc.rho_w)
        /\ ev.loc.fric < RhoG(ev.loc.rho_w) => ev.loc.dp > 0

====
